---- MODULE Spec2Model ----
(***************************************************************************)
(* A model of the ingestion pipeline of youtube-data-api: the quota-aware  *)
(* API client (services/youtubeApiClient.js), the channel and video        *)
(* services, the storage adapter and the Bull job queue                     *)
(* (services/jobQueue.js).                                                  *)
(*                                                                          *)
(* Time is counted in seconds.  Every asynchronous function is cut at its   *)
(* awaits: one action is the synchronous block that runs between two        *)
(* suspensions of the same call.                                            *)
(***************************************************************************)
EXTENDS Integers, Sequences, FiniteSets, TLC

VARIABLES
  now,      \* the clock, in seconds
  ticks,    \* how often the clock has advanced
  daily,    \* rateLimiter's storage: key -> [value, expiresAt]
  minute,   \* minuteRateLimiter's storage for its only key
  cache,    \* apiCache: a set of entries [key, value, t]
  req,      \* per caller: the makeRequest call it is in
  bullId,   \* per Bull queue: the last job id its counter gave out
  jobs,     \* per Bull queue: its jobs, by id
  enq,      \* per queue: the add...Job call between queue.add and the insert
  worker,   \* per queue: the handler run of its processor
  jobRows,  \* table job_queue: row i has the serial id i
  channels, \* table channels: the rows, by channel_id
  videos,   \* table videos: its rows
  analytics, \* table channel_analytics: its rows
  last      \* how the latest call of a client or storage function ended

clientVars == <<now, ticks, daily, minute, cache, req>>
jobVars == <<bullId, jobs, enq, worker, jobRows>>
tableVars == <<channels, videos, analytics>>
callVars == <<last>>
vars == <<now, ticks, daily, minute, cache, req, bullId, jobs, enq, worker,
          jobRows, channels, videos, analytics, last>>

----------------------------------------------------------------------------
(* Bounds of the model *)

\* The clock advances at most this many times.
MaxTicks == 2
\* Points that traffic before the first modelled call left in a window.
Headroom == 1

----------------------------------------------------------------------------
(* Constants of the program *)

DailyPoints == 10000
DailyDuration == 24 * 60 * 60
MinutePoints == 100
MinuteDuration == 60
\* delay(5000), in seconds
RetryDelay == 5
DefaultTTL == 600
ListTTL == 300
ChannelTTL == 1800

\* The steps by which the clock advances.
TickSteps == {RetryDelay, ListTTL}

\* The values makeRequest's cost parameter takes.
Costs == {1, 2}

\* Callers of makeRequest outside the job queue (routes, scripts).
DirectThreads == {"c1", "c2"}
\* The caller inside the channel-fetch processor.
WorkerThread == "wc"
Threads == DirectThreads \cup {WorkerThread}

\* Endpoints as their path segments.
EpChannels == <<"channels">>
EpSearch == <<"search">>
EpVideos == <<"videos">>
EpOther == <<"playlists">>

\* String.prototype.includes on an endpoint, for one path segment.
Includes(endpoint, segment) ==
  \E i \in 1..Len(endpoint) : endpoint[i] = segment

\* The channels of the upstream service; "UCx" is an id it does not know.
ChannelIds == {"UC1", "UCx"}
Existing == {"UC1"}
\* The statistics a channel may report at the time of a response.
Stats == {10, 20}

ParamsOf(ch, tok, ids) == [ch |-> ch, tok |-> tok, ids |-> ids]

NoData == [items |-> <<>>, next |-> 0, stat |-> 0]

\* What a call throws: the head of the Error's message and, for an upstream
\* status, the status.  NoErr is no error (and a null error_message).
NoErr == [kind |-> "", status |-> 0]
Err(kind) == [kind |-> kind, status |-> 0]
ApiErr(status) == [kind |-> "YouTube API Error", status |-> status]

\* The listing pages of a channel upstream, each a sequence of item ids.
PagesOf(ch) ==
  IF ch = "UC1" THEN <<  <<"v1", "p1">>, <<"p2">>  >>
  ELSE IF ch = "UC5"
  THEN <<  <<"v1", "p1">>, <<"p2">>, <<"v2">>, <<"v4", "v3">>, <<"v5">>  >>
  ELSE <<>>

\* item.id.kind of a listed item.
Kind(id) ==
  IF id \in {"p1", "p2"} THEN "youtube#playlist" ELSE "youtube#video"

\* The videos the detail endpoint knows.
KnownDetails == {"v1", "v2", "v3", "v5"}

\* What the upstream service answers to a 2xx request: the ids of the items,
\* the nextPageToken (0 when there is none; the token of page i+1 is i) and
\* the statistics of the moment, which only a channel resource carries.
UpstreamData(endpoint, params, stat) ==
  IF endpoint = EpChannels
  THEN [items |-> IF params.ch \in Existing THEN <<params.ch>> ELSE <<>>,
        next |-> 0, stat |-> stat]
  ELSE IF endpoint = EpSearch
  THEN LET pages == PagesOf(params.ch)
           i == params.tok + 1
       IN [items |-> IF i <= Len(pages) THEN pages[i] ELSE <<>>,
           next |-> IF i < Len(pages) THEN i ELSE 0,
           stat |-> 0]
  ELSE IF endpoint = EpVideos
  THEN [items |-> SelectSeq(params.ids, LAMBDA v : v \in KnownDetails),
        next |-> 0, stat |-> 0]
  ELSE NoData

\* How a network call ends: a 2xx response, a status outside 2xx, or no
\* response at all (which covers the 10 s timeout of the axios instance).
HttpErrors == {400, 403, 404, 500}
\* The statuses the upstream service answers a job's requests with.
JobHttpErrors == {404}

\* error.response.data.error.errors[0].reason of an upstream answer: a 403
\* tells an exhausted quota from an invalid key.
ReasonsOf(status) ==
  IF status = 403 THEN {"quotaExceeded", "keyInvalid"} ELSE {"other"}

----------------------------------------------------------------------------
(* rate-limiter-flexible, RateLimiterMemory *)

NoWindow == [value |-> 0, expiresAt |-> 0]

\* MemoryStorage.incrby: add to a live window, or open a new one.
Incrby(rec, points, duration, t) ==
  IF rec.expiresAt - t > 0
  THEN [rec EXCEPT !.value = @ + points]
  ELSE [value |-> points, expiresAt |-> t + duration]

\* consume rejects when the points consumed, this call's included, exceed
\* the limiter's points.
Rejects(rec, points) == rec.value > points

\* rateLimiter.consume(cost): consume(key, pointsToConsume = 1) is called
\* with cost in the place of the key, so it adds one point to the window
\* of key `cost`.
ConsumeDaily(cost) == Incrby(daily[cost], 1, DailyDuration, now)

\* minuteRateLimiter.consume(1): one point on key 1.
ConsumeMinute == Incrby(minute, 1, MinuteDuration, now)

----------------------------------------------------------------------------
(* node-cache *)

\* `${endpoint}_${JSON.stringify(params)}`
CacheKey(endpoint, params) == <<endpoint, params>>

\* An entry is expired once its time t lies before the clock.
Expired(e) == e.t < now

\* A cache that never has the entry.
CacheGet_Miss(k) == {}

\* apiCache.get: the live entries under a key (at most one).
CacheGet(k) == {e \in cache : e.key = k /\ ~Expired(e)}

\* apiCache.set replaces the entry under the key.
CacheSet(k, value, ttl) ==
  {e \in cache : e.key # k} \cup {[key |-> k, value |-> value, t |-> now + ttl]}

\* One TTL for every endpoint.
CacheTTL_Default(endpoint) == DefaultTTL

\* The TTL makeRequest picks for an endpoint.
CacheTTL(endpoint) ==
  IF Includes(endpoint, "search") \/ Includes(endpoint, "videos") THEN ListTTL
  ELSE IF Includes(endpoint, "channels") THEN ChannelTTL
  ELSE DefaultTTL

----------------------------------------------------------------------------
(* YouTubeAPIClient.makeRequest *)

IdleReq ==
  [pc |-> "idle", ep |-> <<>>, params |-> ParamsOf("", 0, <<>>), cost |-> 0,
   ok |-> TRUE, wakeAt |-> 0,
   result |-> "none", err |-> NoErr, value |-> NoData,
   \* history of the call
   tries |-> 0, waits |-> 0, dCharged |-> 0, mCharged |-> 0,
   issued |-> FALSE, after |-> {}, checkAt |-> 0, entryT |-> 0,
   reason |-> ""]

\* The call ends: it returns a value or throws.
Return(r, result, err, value) ==
  [r EXCEPT !.pc = "done", !.result = result, !.err = err, !.value = value,
            !.ok = TRUE, !.wakeAt = 0]

\* A client that waits and retries again after a rejected retry.
RetryRejected_Loop(r) ==
  [r EXCEPT !.pc = "awaitDelay", !.wakeAt = now + RetryDelay, !.waits = @ + 1]

\* Where a rejected retry leaves the call: the inner throw is caught by the
\* outer catch, which has neither a response nor a request and rethrows.
RetryRejected(r) ==
  Return(r, "err", Err("Request error"), NoData)

\* Lines 64-84: with the quota taken, look the response up in the cache and
\* return it, or send the request.
AfterQuota(r) ==
  LET hit == CacheGet(CacheKey(r.ep, r.params)) IN
  IF hit # {}
  THEN LET e == CHOOSE e \in hit : TRUE IN
       [Return(r, "hit", NoErr, e.value) EXCEPT !.checkAt = now, !.entryT = e.t]
  ELSE [r EXCEPT !.pc = "awaitGet", !.issued = TRUE, !.checkAt = now]

\* makeRequest is entered by caller t: the first rateLimiter.consume(cost)
\* runs and the call waits for it.
Enter(t, endpoint, params, cost) ==
  LET d == ConsumeDaily(cost) IN
  /\ daily' = [daily EXCEPT ![cost] = d]
  /\ req' = [req EXCEPT ![t] =
       [IdleReq EXCEPT !.pc = "awaitDaily1", !.ep = endpoint,
                       !.params = params, !.cost = cost,
                       !.ok = ~Rejects(d, DailyPoints),
                       !.tries = 1, !.dCharged = 1,
                       !.after = {u \in Threads \ {t} : req[u].pc = "done"}]]
  /\ UNCHANGED <<now, ticks, minute, cache>>

\* A caller outside the job queue calls makeRequest.
Call(t, endpoint, params, cost) ==
  /\ req[t].pc = "idle"
  /\ Enter(t, endpoint, params, cost)
  /\ UNCHANGED jobVars
  /\ UNCHANGED tableVars
  /\ UNCHANGED callVars

\* An awaited consume of the daily limiter has settled.
AfterDaily(t, first) ==
  /\ req[t].pc = (IF first THEN "awaitDaily1" ELSE "awaitDaily2")
  /\ IF req[t].ok
     THEN LET m == ConsumeMinute IN
          /\ minute' = m
          /\ req' = [req EXCEPT ![t] =
               [@ EXCEPT !.pc = IF first THEN "awaitMinute1" ELSE "awaitMinute2",
                         !.ok = ~Rejects(m, MinutePoints),
                         !.mCharged = @ + 1]]
     ELSE /\ minute' = minute
          /\ req' = [req EXCEPT ![t] =
               IF first
               THEN [@ EXCEPT !.pc = "awaitDelay", !.wakeAt = now + RetryDelay,
                              !.waits = @ + 1]
               ELSE RetryRejected(@)]
  /\ UNCHANGED <<now, ticks, daily, cache>>
  /\ UNCHANGED jobVars
  /\ UNCHANGED tableVars
  /\ UNCHANGED callVars

\* An awaited consume of the per-minute limiter has settled.
AfterMinute(t, first) ==
  /\ req[t].pc = (IF first THEN "awaitMinute1" ELSE "awaitMinute2")
  /\ req' = [req EXCEPT ![t] =
       IF req[t].ok THEN AfterQuota(@)
       ELSE IF first
       THEN [@ EXCEPT !.pc = "awaitDelay", !.wakeAt = now + RetryDelay,
                      !.waits = @ + 1]
       ELSE RetryRejected(@)]
  /\ UNCHANGED <<now, ticks, daily, minute, cache>>
  /\ UNCHANGED jobVars
  /\ UNCHANGED tableVars
  /\ UNCHANGED callVars

\* The 5 s timer fires: the retry's rateLimiter.consume(cost) runs.
AfterDelay(t) ==
  /\ req[t].pc = "awaitDelay"
  /\ now >= req[t].wakeAt
  /\ LET d == ConsumeDaily(req[t].cost) IN
     /\ daily' = [daily EXCEPT ![req[t].cost] = d]
     /\ req' = [req EXCEPT ![t] =
          [@ EXCEPT !.pc = "awaitDaily2", !.ok = ~Rejects(d, DailyPoints),
                    !.tries = @ + 1, !.dCharged = @ + 1]]
  /\ UNCHANGED <<now, ticks, minute, cache>>
  /\ UNCHANGED jobVars
  /\ UNCHANGED tableVars
  /\ UNCHANGED callVars

\* The GET is answered with a 2xx: the data is cached and returned.
ResponseOk(t, stat) ==
  /\ req[t].pc = "awaitGet"
  /\ LET data == UpstreamData(req[t].ep, req[t].params, stat) IN
     /\ cache' = CacheSet(CacheKey(req[t].ep, req[t].params), data,
                          CacheTTL(req[t].ep))
     /\ req' = [req EXCEPT ![t] =
          [Return(@, "ok", NoErr, data) EXCEPT
             !.entryT = now + CacheTTL(req[t].ep)]]
  /\ UNCHANGED <<now, ticks, daily, minute>>
  /\ UNCHANGED jobVars
  /\ UNCHANGED tableVars
  /\ UNCHANGED callVars

\* The GET is answered with a status outside 2xx; the reason code of the
\* answer is logged at most and is not part of what is thrown.
ResponseError(t, status, reason) ==
  /\ req[t].pc = "awaitGet"
  /\ req' = [req EXCEPT ![t] =
       [Return(@, "err", ApiErr(status), NoData) EXCEPT !.reason = reason]]
  /\ UNCHANGED <<now, ticks, daily, minute, cache>>
  /\ UNCHANGED jobVars
  /\ UNCHANGED tableVars
  /\ UNCHANGED callVars

\* The GET gets no response.
NoResponse(t) ==
  /\ req[t].pc = "awaitGet"
  /\ req' = [req EXCEPT ![t] = Return(@, "err", Err("Network error"), NoData)]
  /\ UNCHANGED <<now, ticks, daily, minute, cache>>
  /\ UNCHANGED jobVars
  /\ UNCHANGED tableVars
  /\ UNCHANGED callVars

\* Time passes.
Tick(d) ==
  /\ ticks < MaxTicks
  /\ now' = now + d
  /\ ticks' = ticks + 1
  /\ UNCHANGED <<daily, minute, cache, req>>
  /\ UNCHANGED jobVars
  /\ UNCHANGED tableVars
  /\ UNCHANGED callVars

----------------------------------------------------------------------------
(* Bull queues and the job_queue table: services/jobQueue.js *)

\* Jobs added to one queue.
MaxJobs == 1
\* attempts: 3
MaxAttempts == 3
\* backoff: { type: 'exponential', delay: 2000 }, in seconds
BackoffDelay == 2
\* fetchChannelVideosPaginated(channelId, maxPages = 5)
DefaultMaxPages == 5

Queues == {"channel", "video"}
JobType(q) == IF q = "channel" THEN "channel_fetch" ELSE "video_fetch"

\* Bull's exponential backoff before the retry that follows failure number n.
Backoff(n) == (2 ^ n - 1) * BackoffDelay

\* The methods class YouTubeAPIClient defines.
ClientMethods ==
  {"makeRequest", "delay", "getChannelInfo", "getChannelVideos",
   "getVideoDetails", "parseDuration", "isShort"}

\* The error taxonomy of the specification, over what the client throws.
Transient(e) ==
  \/ e.kind \in {"Request error", "Network error"}
  \/ e.kind = "YouTube API Error" /\ (e.status >= 500 \/ e.status = 403)
NonTransient(e) ==
  \/ e.kind = "Channel not found"
  \/ e.kind = "YouTube API Error" /\ e.status \in (400..499) \ {403}
\* A failure of something outside the job: the upstream service or storage.
External(e) ==
  e.kind \in {"Request error", "Network error", "YouTube API Error",
              "Channel not found", "storage error"}

NoJob ==
  [state |-> "none", ch |-> "", attemptsMade |-> 0, delayedUntil |-> 0,
   \* history of the job
   runs |-> 0, ntFailed |-> FALSE, trFailed |-> 0, extFailed |-> FALSE]

IdleEnq == [pc |-> "idle", id |-> 0, ch |-> ""]

IdleWorker ==
  [pc |-> "idle", id |-> 0, ch |-> "", stat |-> 0, maxPages |-> 0,
   pagesFetched |-> 0, allVideos |-> <<>>, listed |-> <<>>, next |-> 0,
   err |-> NoErr,
   \* history of the walk: the page token each listing call carried
   calls |-> <<>>]

NoRow == [present |-> FALSE, stat |-> 0, created_at |-> 0, updated_at |-> 0]

\* An update that resets the progress when an attempt starts.
UpdateJobStatus_ResetProgress(rows, jobId, status, errorMessage) ==
  [i \in DOMAIN rows |->
     IF i # jobId THEN rows[i]
     ELSE IF status = "failed"
     THEN [rows[i] EXCEPT !.status = status, !.error_message = errorMessage]
     ELSE IF status = "started"
     THEN [rows[i] EXCEPT !.status = status, !.progress = 0]
     ELSE [rows[i] EXCEPT !.status = status]]

\* UPDATE job_queue SET status ... WHERE id = jobId
UpdateJobStatus(rows, jobId, status, errorMessage) ==
  [i \in DOMAIN rows |->
     IF i # jobId THEN rows[i]
     ELSE IF status = "failed"
     THEN [rows[i] EXCEPT !.status = status, !.error_message = errorMessage]
     ELSE [rows[i] EXCEPT !.status = status]]

\* UPDATE job_queue SET progress = $1 WHERE id = $2
UpdateJobProgress(rows, jobId, progress) ==
  [i \in DOMAIN rows |->
     IF i = jobId THEN [rows[i] EXCEPT !.progress = progress] ELSE rows[i]]

\* add...Job up to its first await: queue.add creates the job.
Add(q, ch) ==
  /\ enq[q].pc = "idle"
  /\ bullId[q] < MaxJobs
  /\ LET id == bullId[q] + 1 IN
     /\ bullId' = [bullId EXCEPT ![q] = id]
     /\ jobs' = [jobs EXCEPT ![q][id] =
          [NoJob EXCEPT !.state = "waiting", !.ch = ch]]
     /\ enq' = [enq EXCEPT ![q] = [pc |-> "added", id |-> id, ch |-> ch]]
  /\ UNCHANGED <<worker, jobRows>>
  /\ UNCHANGED clientVars
  /\ UNCHANGED tableVars
  /\ UNCHANGED callVars

\* storeJobInDatabase: the INSERT takes the next serial id; the Bull id it
\* is handed is not among the inserted columns.
StoreJobInDatabase(q) ==
  /\ enq[q].pc = "added"
  /\ jobRows' = Append(jobRows,
       [job_type |-> JobType(q), channel_id |-> enq[q].ch,
        status |-> "pending", progress |-> 0, error_message |-> NoErr,
        \* history: the job whose enqueue made the row, and whether the
        \* processor had taken that job before the row was there
        by |-> <<q, enq[q].id>>, late |-> jobs[q][enq[q].id].runs > 0])
  /\ enq' = [enq EXCEPT ![q] = IdleEnq]
  /\ UNCHANGED <<bullId, jobs, worker>>
  /\ UNCHANGED clientVars
  /\ UNCHANGED tableVars
  /\ UNCHANGED callVars

\* The processor of queue q takes a waiting job; the handler starts and
\* sends its first query.
Take(q, id) ==
  /\ worker[q].pc = "idle"
  /\ jobs[q][id].state = "waiting"
  /\ jobs' = [jobs EXCEPT ![q][id] =
       [@ EXCEPT !.state = "active", !.runs = @ + 1]]
  /\ worker' = [worker EXCEPT ![q] =
       [IdleWorker EXCEPT !.pc = "start", !.id = id, !.ch = jobs[q][id].ch]]
  /\ UNCHANGED <<bullId, enq, jobRows>>
  /\ UNCHANGED clientVars
  /\ UNCHANGED tableVars
  /\ UNCHANGED callVars

\* await updateJobStatus(job.id, 'started')
Started(q) ==
  /\ worker[q].pc = "start"
  /\ jobRows' = UpdateJobStatus(jobRows, worker[q].id, "started", NoErr)
  /\ worker' = [worker EXCEPT ![q] = [@ EXCEPT !.pc = "import"]]
  /\ UNCHANGED <<bullId, jobs, enq>>
  /\ UNCHANGED clientVars
  /\ UNCHANGED tableVars
  /\ UNCHANGED callVars

\* An error reaches the handler's catch, which sends the 'failed' update.
Throw(w, e) == [w EXCEPT !.pc = "catch", !.err = e]

\* Bull after a handler threw: another attempt after the backoff while
\* attempts remain, whatever was thrown; failed otherwise.
MoveToFailed(j, e) ==
  LET n == j.attemptsMade + 1 IN
  [j EXCEPT !.attemptsMade = n,
            !.state = IF n < MaxAttempts THEN "delayed" ELSE "failed",
            !.delayedUntil = IF n < MaxAttempts THEN now + Backoff(n) ELSE 0,
            !.ntFailed = @ \/ NonTransient(e),
            !.trFailed = @ + (IF Transient(e) THEN 1 ELSE 0),
            !.extFailed = @ \/ External(e)]

\* The catch block: await updateJobStatus(job.id, 'failed', error.message),
\* then the rethrow, which hands the job back to Bull.
Catch(q) ==
  /\ worker[q].pc = "catch"
  /\ jobRows' = UpdateJobStatus(jobRows, worker[q].id, "failed", worker[q].err)
  /\ jobs' = [jobs EXCEPT ![q][worker[q].id] = MoveToFailed(@, worker[q].err)]
  /\ worker' = [worker EXCEPT ![q] = IdleWorker]
  /\ UNCHANGED <<bullId, enq>>
  /\ UNCHANGED clientVars
  /\ UNCHANGED tableVars
  /\ UNCHANGED callVars

\* A job sits out its backoff.
BackingOff ==
  \E q \in Queues, id \in 1..MaxJobs :
     jobs[q][id].state = "delayed" /\ jobs[q][id].delayedUntil > now

\* The backoff of a delayed job is over: it waits for the processor again.
Promote(q, id) ==
  /\ jobs[q][id].state = "delayed"
  /\ now >= jobs[q][id].delayedUntil
  /\ jobs' = [jobs EXCEPT ![q][id] = [@ EXCEPT !.state = "waiting"]]
  /\ UNCHANGED <<bullId, enq, worker, jobRows>>
  /\ UNCHANGED clientVars
  /\ UNCHANGED tableVars
  /\ UNCHANGED callVars

----------------------------------------------------------------------------
(* The channel-fetch processor and the services it drives *)

\* INSERT INTO channels ... ON CONFLICT (channel_id) DO UPDATE SET ...
\* A storeChannel that writes the whole row anew.
UpsertChannel_Reinsert(tbl, ch, stat) ==
  [tbl EXCEPT ![ch] = [present |-> TRUE, stat |-> stat, created_at |-> now,
                       updated_at |-> now]]

UpsertChannel(tbl, ch, stat) ==
  [tbl EXCEPT ![ch] =
     IF @.present
     THEN [@ EXCEPT !.stat = stat, !.updated_at = now]
     ELSE [present |-> TRUE, stat |-> stat, created_at |-> now,
           updated_at |-> now]]

\* The import has resolved: the service is built, and fetchAndStoreChannel
\* calls getChannelInfo, which calls makeRequest('/channels', ...).
ChFetchInfo ==
  /\ worker["channel"].pc = "import"
  /\ Enter(WorkerThread, EpChannels, ParamsOf(worker["channel"].ch, 0, <<>>), 1)
  /\ worker' = [worker EXCEPT !["channel"] = [@ EXCEPT !.pc = "info"]]
  /\ UNCHANGED <<bullId, jobs, enq, jobRows>>
  /\ UNCHANGED tableVars
  /\ UNCHANGED callVars

\* makeRequest has ended inside getChannelInfo: an error passes through, a
\* response without items is "Channel not found", and otherwise storeChannel
\* sends its upsert.
ChInfoReturned ==
  /\ worker["channel"].pc = "info"
  /\ req[WorkerThread].pc = "done"
  /\ req' = [req EXCEPT ![WorkerThread] = IdleReq]
  /\ worker' = [worker EXCEPT !["channel"] =
       IF req[WorkerThread].result = "err" THEN Throw(@, req[WorkerThread].err)
       ELSE IF req[WorkerThread].value.items = <<>>
       THEN Throw(@, Err("Channel not found"))
       ELSE [@ EXCEPT !.pc = "store", !.stat = req[WorkerThread].value.stat]]
  /\ UNCHANGED <<now, ticks, daily, minute, cache>>
  /\ UNCHANGED <<bullId, jobs, enq, jobRows>>
  /\ UNCHANGED tableVars
  /\ UNCHANGED callVars

\* storeChannel's query ends: the row is upserted, or the query fails and
\* the error is rethrown.  Then updateJobProgress(job.id, 50) is sent.
ChStoreChannel(stored) ==
  /\ worker["channel"].pc = "store"
  /\ IF stored
     THEN /\ channels' = UpsertChannel(channels, worker["channel"].ch,
                                       worker["channel"].stat)
          /\ worker' = [worker EXCEPT !["channel"] = [@ EXCEPT !.pc = "p50"]]
     ELSE /\ channels' = channels
          /\ worker' = [worker EXCEPT !["channel"] =
                          Throw(@, Err("storage error"))]
  /\ UNCHANGED <<bullId, jobs, enq, jobRows, videos, analytics, last>>
  /\ UNCHANGED clientVars

\* fetchChannelVideosPaginated(channelId, maxPages) starts its loop with
\* getChannelVideos(channelId, 50, null).
\* A walk whose loop tests pagesFetched < maxPages before its first turn.
StartWalk_WhileLoop(maxPages) ==
  IF maxPages < 1
  THEN /\ req' = [req EXCEPT ![WorkerThread] = IdleReq]
       /\ UNCHANGED <<now, ticks, daily, minute, cache>>
       /\ worker' = [worker EXCEPT !["channel"] =
            [@ EXCEPT !.pc = "p100", !.maxPages = maxPages,
                      !.pagesFetched = 0, !.allVideos = <<>>,
                      !.calls = <<>>]]
  ELSE /\ Enter(WorkerThread, EpSearch,
                ParamsOf(worker["channel"].ch, 0, <<>>), 1)
       /\ worker' = [worker EXCEPT !["channel"] =
            [@ EXCEPT !.pc = "search", !.maxPages = maxPages,
                      !.pagesFetched = 0, !.allVideos = <<>>,
                      !.calls = <<0>>]]

\* The entry of fetchChannelVideosPaginated: the do-while loop makes its
\* first listing call before it tests anything.
StartWalk(maxPages) ==
  /\ Enter(WorkerThread, EpSearch, ParamsOf(worker["channel"].ch, 0, <<>>), 1)
  /\ worker' = [worker EXCEPT !["channel"] =
       [@ EXCEPT !.pc = "search", !.maxPages = maxPages,
                 !.pagesFetched = 0, !.allVideos = <<>>,
                 !.calls = <<0>>]]

\* updateJobProgress(job.id, 50) ends and the handler calls
\* fetchChannelVideosPaginated(channelId).
ChProgress50 ==
  /\ worker["channel"].pc = "p50"
  /\ jobRows' = UpdateJobProgress(jobRows, worker["channel"].id, 50)
  /\ StartWalk(DefaultMaxPages)
  /\ UNCHANGED <<bullId, jobs, enq>>
  /\ UNCHANGED tableVars
  /\ UNCHANGED callVars

\* fetchChannelVideosPaginated is called from outside the job queue, with
\* the channel and maxPages of the call.
FetchChannelVideosPaginated ==
  /\ worker["channel"].pc = "walk"
  /\ StartWalk(worker["channel"].maxPages)
  /\ UNCHANGED <<bullId, jobs, enq, jobRows>>
  /\ UNCHANGED tableVars
  /\ UNCHANGED callVars

\* A loop that tests pagesFetched <= maxPages.
EndPage_OffByOne(pageVideos, nextPageToken) ==
  LET w == worker["channel"]
      all == w.allVideos \o pageVideos
      n == w.pagesFetched + 1
  IN IF nextPageToken # 0 /\ n <= w.maxPages
     THEN /\ Enter(WorkerThread, EpSearch,
                   ParamsOf(w.ch, nextPageToken, <<>>), 1)
          /\ worker' = [worker EXCEPT !["channel"] =
               [@ EXCEPT !.pc = "search", !.allVideos = all,
                         !.pagesFetched = n, !.listed = <<>>, !.next = 0,
                         !.calls = Append(@, nextPageToken)]]
     ELSE /\ req' = [req EXCEPT ![WorkerThread] = IdleReq]
          /\ UNCHANGED <<now, ticks, daily, minute, cache>>
          /\ worker' = [worker EXCEPT !["channel"] =
               [@ EXCEPT !.pc = "p100", !.allVideos = all,
                         !.pagesFetched = n, !.listed = <<>>, !.next = 0]]

\* The end of one turn of the do-while loop of fetchChannelVideosPaginated:
\* the page's videos are appended, and the loop fetches the next page while
\* there is a token and pagesFetched < maxPages; else the handler goes on
\* to updateJobProgress(job.id, 100).
EndPage(pageVideos, nextPageToken) ==
  LET w == worker["channel"]
      all == w.allVideos \o pageVideos
      n == w.pagesFetched + 1
  IN IF nextPageToken # 0 /\ n < w.maxPages
     THEN /\ Enter(WorkerThread, EpSearch,
                   ParamsOf(w.ch, nextPageToken, <<>>), 1)
          /\ worker' = [worker EXCEPT !["channel"] =
               [@ EXCEPT !.pc = "search", !.allVideos = all,
                         !.pagesFetched = n, !.listed = <<>>, !.next = 0,
                         !.calls = Append(@, nextPageToken)]]
     ELSE /\ req' = [req EXCEPT ![WorkerThread] = IdleReq]
          /\ UNCHANGED <<now, ticks, daily, minute, cache>>
          /\ worker' = [worker EXCEPT !["channel"] =
               [@ EXCEPT !.pc = "p100", !.allVideos = all,
                         !.pagesFetched = n, !.listed = <<>>, !.next = 0]]

\* makeRequest('/search') has ended inside getChannelVideos: the listed
\* video ids are joined and, unless there are none, getVideoDetails calls
\* makeRequest('/videos').
ChSearchReturned ==
  /\ worker["channel"].pc = "search"
  /\ req[WorkerThread].pc = "done"
  /\ LET r == req[WorkerThread]
         videoIds == SelectSeq(r.value.items,
                               LAMBDA i : Kind(i) = "youtube#video")
     IN IF r.result = "err"
        THEN /\ req' = [req EXCEPT ![WorkerThread] = IdleReq]
             /\ UNCHANGED <<now, ticks, daily, minute, cache>>
             /\ worker' = [worker EXCEPT !["channel"] = Throw(@, r.err)]
        ELSE IF videoIds = <<>>
        THEN EndPage(<<>>, r.value.next)
        ELSE /\ Enter(WorkerThread, EpVideos, ParamsOf("", 0, videoIds), 1)
             /\ worker' = [worker EXCEPT !["channel"] =
                  [@ EXCEPT !.pc = "details", !.listed = videoIds,
                            !.next = r.value.next]]
  /\ UNCHANGED <<bullId, jobs, enq, jobRows>>
  /\ UNCHANGED tableVars
  /\ UNCHANGED callVars

\* A page that keeps every listed video, matched or not.
Combine_KeepAll(listed, found) == listed

\* getChannelVideos combines the listing with the details: a listed video
\* is kept when videoDetails.find gives its detail record, else it maps to
\* null and filter(Boolean) removes it.
Combine(listed, found) == SelectSeq(listed, LAMBDA v : v \in found)

\* makeRequest('/videos') has ended inside getVideoDetails: the page keeps
\* the listed videos that have a detail record.
ChDetailsReturned ==
  /\ worker["channel"].pc = "details"
  /\ req[WorkerThread].pc = "done"
  /\ LET r == req[WorkerThread]
         w == worker["channel"]
         found == {r.value.items[i] : i \in 1..Len(r.value.items)}
     IN IF r.result = "err"
        THEN /\ req' = [req EXCEPT ![WorkerThread] = IdleReq]
             /\ UNCHANGED <<now, ticks, daily, minute, cache>>
             /\ worker' = [worker EXCEPT !["channel"] = Throw(@, r.err)]
        ELSE EndPage(Combine(w.listed, found), w.next)
  /\ UNCHANGED <<bullId, jobs, enq, jobRows>>
  /\ UNCHANGED tableVars
  /\ UNCHANGED callVars

\* updateJobProgress(job.id, 100) ends; updateJobStatus(job.id, 'completed')
\* is sent.
ChProgress100 ==
  /\ worker["channel"].pc = "p100"
  /\ jobRows' = UpdateJobProgress(jobRows, worker["channel"].id, 100)
  /\ worker' = [worker EXCEPT !["channel"] = [@ EXCEPT !.pc = "complete"]]
  /\ UNCHANGED <<bullId, jobs, enq>>
  /\ UNCHANGED clientVars
  /\ UNCHANGED tableVars
  /\ UNCHANGED callVars

\* updateJobStatus(job.id, 'completed') ends and the handler returns: Bull
\* moves the job to completed.
ChComplete ==
  /\ worker["channel"].pc = "complete"
  /\ jobRows' = UpdateJobStatus(jobRows, worker["channel"].id, "completed", NoErr)
  /\ jobs' = [jobs EXCEPT !["channel"][worker["channel"].id] =
       [@ EXCEPT !.state = "completed"]]
  /\ worker' = [worker EXCEPT !["channel"] = IdleWorker]
  /\ UNCHANGED <<bullId, enq>>
  /\ UNCHANGED clientVars
  /\ UNCHANGED tableVars
  /\ UNCHANGED callVars

----------------------------------------------------------------------------
(* The video-fetch processor *)

\* The import has resolved: the service is built and
\* fetchAndStoreChannelVideos calls this.client.fetchChannelVideosPaginated.
\* this.client is a YouTubeAPIClient, which has no such method (it is a
\* method of YouTubeChannelService), so the call throws a TypeError before
\* any request or query is made.
VideoFetchAndStore ==
  /\ worker["video"].pc = "import"
  /\ "fetchChannelVideosPaginated" \notin ClientMethods
  /\ worker' = [worker EXCEPT !["video"] = Throw(@, Err("TypeError"))]
  /\ UNCHANGED <<bullId, jobs, enq, jobRows>>
  /\ UNCHANGED clientVars
  /\ UNCHANGED tableVars
  /\ UNCHANGED callVars

----------------------------------------------------------------------------
(* YouTubeAPIClient: parseDuration, isShort and the mapping of            *)
(* getVideoDetails.  A string is the sequence of its characters.          *)

DigitChars == <<"0", "1", "2", "3", "4", "5", "6", "7", "8", "9">>
IsDigit(c) == \E i \in 1..10 : DigitChars[i] = c
DigitVal(c) == (CHOOSE i \in 1..10 : DigitChars[i] = c) - 1

\* parseInt of a run of decimal digits.
RECURSIVE ParseInt(_)
ParseInt(ds) ==
  IF ds = <<>> THEN 0
  ELSE ParseInt(SubSeq(ds, 1, Len(ds) - 1)) * 10 + DigitVal(ds[Len(ds)])

\* parseInt(matches[i]) || 0: the group that took no part in the match is
\* undefined, its parseInt is NaN, and NaN || 0 is 0.
ParseIntOr0(group) == IF group = <<>> THEN 0 ELSE ParseInt(group)

\* \d+ from position p: the position after the longest run of digits.
RECURSIVE DigitsFrom(_, _)
DigitsFrom(s, p) ==
  IF p <= Len(s) /\ IsDigit(s[p]) THEN DigitsFrom(s, p + 1) ELSE p

\* (?:(\d+)U)? at position p: the digits captured (<<>> when the group
\* takes no part) and the position the match goes on from.
Group(s, p, unit) ==
  LET q == DigitsFrom(s, p) IN
  IF q > p /\ q <= Len(s) /\ s[q] = unit
  THEN [digits |-> SubSeq(s, p, q - 1), next |-> q + 1]
  ELSE [digits |-> <<>>, next |-> p]

\* duration.match(/PT(?:(\d+)H)?(?:(\d+)M)?(?:(\d+)S)?/): the regex is not
\* anchored, so the match starts at the first "PT" of the string; the
\* result holds the three groups, or is NoMatch.
NoMatch == [found |-> FALSE, h |-> <<>>, m |-> <<>>, s |-> <<>>]
Match(str) ==
  LET starts == {i \in 1..(Len(str) - 1) : str[i] = "P" /\ str[i + 1] = "T"}
  IN IF starts = {} THEN NoMatch
     ELSE LET i == CHOOSE i \in starts : \A j \in starts : i <= j
              gh == Group(str, i + 2, "H")
              gm == Group(str, gh.next, "M")
              gs == Group(str, gm.next, "S")
          IN [found |-> TRUE, h |-> gh.digits, m |-> gm.digits,
              s |-> gs.digits]

\* parseDuration of a string.
ParseDuration(str) ==
  LET matches == Match(str) IN
  IF ~matches.found THEN 0
  ELSE ParseIntOr0(matches.h) * 3600 + ParseIntOr0(matches.m) * 60
       + ParseIntOr0(matches.s)

\* tag.toLowerCase(), for the letters the tags are written with.
UpperChars == <<"S", "H", "O", "R", "T">>
LowerChars == <<"s", "h", "o", "r", "t">>
ToLowerCase(str) ==
  [i \in 1..Len(str) |->
     IF \E k \in 1..Len(UpperChars) : UpperChars[k] = str[i]
     THEN LowerChars[CHOOSE k \in 1..Len(UpperChars) : UpperChars[k] = str[i]]
     ELSE str[i]]

\* str.includes(sub)
StrIncludes(str, sub) ==
  \E i \in 1..(Len(str) - Len(sub) + 1) :
     SubSeq(str, i, i + Len(sub) - 1) = sub

SubShort == <<"s", "h", "o", "r", "t">>

\* tags && tags.some(tag => tag.toLowerCase().includes('short') || ...)
SomeTagShort(tags) ==
  /\ tags.present
  /\ \E i \in 1..Len(tags.list) :
        StrIncludes(ToLowerCase(tags.list[i]), SubShort)

\* isShort(categoryId, duration, tags)
IsShort(categoryId, duration, tags) ==
  IF duration <= 60 THEN TRUE
  ELSE IF SomeTagShort(tags) THEN TRUE
  ELSE IF categoryId = "23" THEN TRUE
  ELSE duration <= 61

NoVideo ==
  [videoId |-> "", channelId |-> "", durationSeconds |-> 0,
   isShort |-> FALSE, categoryId |-> "",
   tags |-> [present |-> FALSE, list |-> <<>>]]

NoResource ==
  [id |-> "", ch |-> "", duration |-> [present |-> FALSE, text |-> <<>>],
   categoryId |-> "", tags |-> [present |-> FALSE, list |-> <<>>]]

NoAnalyticsData ==
  [totalVideos |-> 0, totalShorts |-> 0, shortsPercentage |-> 0]

\* No call has ended yet.  res, video, ch and stat are the arguments of
\* the call, data is what an analytics call computed, and `again` tells
\* that the call before it was the same call with the same arguments.
NoOutcome ==
  [op |-> "", threw |-> "", video |-> NoVideo, res |-> NoResource,
   ch |-> "", stat |-> 0, data |-> NoAnalyticsData, again |-> FALSE,
   \* getJobStatus: the handle the caller holds and the job reported
   handle |-> [q |-> "", id |-> 0],
   \* isShort(video) of utils/analytics: the is_short the video carries
   \* and what the function returned
   flag |-> [present |-> FALSE, value |-> FALSE], short |-> FALSE,
   job |-> [found |-> FALSE, q |-> "", id |-> 0, ch |-> "", state |-> ""]]

\* The video getVideoDetails makes of a resource that has a duration.
VideoOf(res) ==
  LET duration == ParseDuration(res.duration.text) IN
  [videoId |-> res.id, channelId |-> res.ch, durationSeconds |-> duration,
   isShort |-> IsShort(res.categoryId, duration, res.tags),
   categoryId |-> res.categoryId,
   tags |-> [present |-> TRUE,
             list |-> IF res.tags.present THEN res.tags.list ELSE <<>>]]

\* response.items.map(video => ...) of getVideoDetails for one video
\* resource of a 2xx response: video.contentDetails.duration.match throws a
\* TypeError when the resource carries no duration.
GetVideoDetails(res) ==
  /\ last' =
       IF ~res.duration.present
       THEN [NoOutcome EXCEPT !.op = "getVideoDetails", !.res = res,
                              !.threw = "TypeError"]
       ELSE [NoOutcome EXCEPT !.op = "getVideoDetails", !.res = res,
                              !.video = VideoOf(res)]
  /\ UNCHANGED clientVars
  /\ UNCHANGED jobVars
  /\ UNCHANGED tableVars

----------------------------------------------------------------------------
(* Specifications *)

InitCommon ==
  /\ now = 0
  /\ ticks = 0
  /\ cache = {}
  /\ req = [t \in Threads |-> IdleReq]
  /\ bullId = [q \in Queues |-> 0]
  /\ jobs = [q \in Queues |-> [i \in 1..MaxJobs |-> NoJob]]
  /\ enq = [q \in Queues |-> IdleEnq]
  /\ worker = [q \in Queues |-> IdleWorker]
  /\ jobRows = <<>>
  /\ channels = [c \in ChannelIds |-> NoRow]
  /\ videos = {}
  /\ analytics = {}
  /\ last = NoOutcome

\* A limiter window as earlier traffic may have left it: none, or one
\* with Headroom points to spare.
Prior(points, duration) ==
  {NoWindow, [value |-> points - Headroom, expiresAt |-> duration]}

\* The endpoints the callers outside the job queue request: c1 the listing
\* of a channel, c2 the same listing or the channel itself.
DirectEndpoints(t) ==
  IF t = "c1" THEN {EpSearch} ELSE {EpSearch, EpChannels}

\* The client alone, called from outside the job queue; c1 calls first.
Init ==
  /\ InitCommon
  /\ \E w \in Prior(DailyPoints, DailyDuration) : daily = [c \in Costs |-> w]
  /\ minute \in Prior(MinutePoints, MinuteDuration)

Next ==
  \/ \E t \in DirectThreads, c \in Costs : \E ep \in DirectEndpoints(t) :
        /\ t = "c2" => req["c1"].pc # "idle"
        /\ Call(t, ep, ParamsOf("UC1", 0, <<>>), c)
  \/ \E t \in DirectThreads, first \in BOOLEAN : AfterDaily(t, first)
  \/ \E t \in DirectThreads, first \in BOOLEAN : AfterMinute(t, first)
  \/ \E t \in DirectThreads : AfterDelay(t)
  \/ \E t \in DirectThreads, stat \in Stats : ResponseOk(t, stat)
  \/ \E t \in DirectThreads, status \in HttpErrors :
        \E reason \in ReasonsOf(status) : ResponseError(t, status, reason)
  \/ \E t \in DirectThreads : NoResponse(t)
  \/ \E d \in TickSteps : Tick(d)

Spec == Init /\ [][Next]_vars

\* The channel-fetch queue: jobs are added to both queues, the channel-fetch
\* processor runs them and drives the client, from fresh limiter windows
\* (the requests of the modelled jobs cannot fill one).  The clock is
\* advanced while a job sits out its backoff.
InitJobs ==
  /\ InitCommon
  /\ daily = [c \in Costs |-> NoWindow]
  /\ minute = NoWindow

NextJobs ==
  \/ \E q \in Queues, ch \in ChannelIds : Add(q, ch)
  \/ \E q \in Queues : StoreJobInDatabase(q)
  \/ \E id \in 1..MaxJobs : Take("channel", id)
  \/ Started("channel")
  \/ ChFetchInfo
  \/ ChInfoReturned
  \/ \E stored \in BOOLEAN : ChStoreChannel(stored)
  \/ ChProgress50
  \/ ChSearchReturned
  \/ ChDetailsReturned
  \/ ChProgress100
  \/ ChComplete
  \/ Catch("channel")
  \/ \E id \in 1..MaxJobs : Promote("channel", id)
  \/ AfterDaily(WorkerThread, TRUE)
  \/ AfterMinute(WorkerThread, TRUE)
  \/ \E stat \in Stats : ResponseOk(WorkerThread, stat)
  \/ \E status \in JobHttpErrors :
        \E reason \in ReasonsOf(status) :
           ResponseError(WorkerThread, status, reason)
  \/ NoResponse(WorkerThread)
  \/ \E d \in TickSteps : BackingOff /\ Tick(d)

SpecJobs == InitJobs /\ [][NextJobs]_vars

\* The largest maxPages fetchChannelVideosPaginated is called with.
MaxPagesArg == 4

\* The channels fetchChannelVideosPaginated is called for.
WalkChannels == {"UC1", "UC5"}

\* The pagination walk alone, called from outside the job queue for some
\* channel with some maxPages.
InitWalk ==
  /\ now = 0
  /\ ticks = 0
  /\ cache = {}
  /\ req = [t \in Threads |-> IdleReq]
  /\ bullId = [q \in Queues |-> 0]
  /\ jobs = [q \in Queues |-> [i \in 1..MaxJobs |-> NoJob]]
  /\ enq = [q \in Queues |-> IdleEnq]
  /\ jobRows = <<>>
  /\ channels = [c \in ChannelIds |-> NoRow]
  /\ videos = {}
  /\ analytics = {}
  /\ last = NoOutcome
  /\ daily = [c \in Costs |-> NoWindow]
  /\ minute = NoWindow
  /\ \E ch \in WalkChannels, maxPages \in (-1)..MaxPagesArg :
        worker = [q \in Queues |->
           IF q = "channel"
           THEN [IdleWorker EXCEPT !.pc = "walk", !.ch = ch,
                                   !.maxPages = maxPages]
           ELSE IdleWorker]

NextWalk ==
  \/ FetchChannelVideosPaginated
  \/ ChSearchReturned
  \/ ChDetailsReturned
  \/ AfterDaily(WorkerThread, TRUE)
  \/ AfterMinute(WorkerThread, TRUE)
  \/ \E stat \in Stats : ResponseOk(WorkerThread, stat)
  \/ \E status \in JobHttpErrors :
        \E reason \in ReasonsOf(status) :
           ResponseError(WorkerThread, status, reason)
  \/ NoResponse(WorkerThread)
  \/ \E d \in TickSteps : Tick(d)

SpecWalk == InitWalk /\ [][NextWalk]_vars

\* A step of the walk or of the request it waits for: every step but the
\* passing of time.
WalkStep ==
  \/ FetchChannelVideosPaginated
  \/ ChSearchReturned
  \/ ChDetailsReturned
  \/ AfterDaily(WorkerThread, TRUE)
  \/ AfterMinute(WorkerThread, TRUE)
  \/ \E stat \in Stats : ResponseOk(WorkerThread, stat)
  \/ \E status \in JobHttpErrors :
        \E reason \in ReasonsOf(status) :
           ResponseError(WorkerThread, status, reason)
  \/ NoResponse(WorkerThread)

\* The walk runs on: a promise the walk awaits is settled, with a response
\* or with an error, and the continuation of the await then runs.
SpecWalkFair == InitWalk /\ [][NextWalk]_vars /\ WF_vars(WalkStep)

\* The video-fetch queue: jobs are added to both queues and the video-fetch
\* processor runs them.
NextVideoJobs ==
  \/ \E q \in Queues, ch \in ChannelIds : Add(q, ch)
  \/ \E q \in Queues : StoreJobInDatabase(q)
  \/ \E id \in 1..MaxJobs : Take("video", id)
  \/ Started("video")
  \/ VideoFetchAndStore
  \/ Catch("video")
  \/ \E id \in 1..MaxJobs : Promote("video", id)
  \/ \E d \in TickSteps : BackingOff /\ Tick(d)

SpecVideoJobs == InitJobs /\ [][NextVideoJobs]_vars

----------------------------------------------------------------------------
(* The quota step and the cache of makeRequest, under Spec *)

\* The quota step of the call has been rejected: the call waits for its
\* retry, or it has failed on the rejected retry.
QuotaRejected(r) ==
  \/ r.pc = "awaitDelay"
  \/ r.pc = "done" /\ r.err = Err("Request error")

\* The call went past the quota step and looked into the cache.
Checked(r) == r.issued \/ r.result = "hit"

\* The call returned a response, from the network or from the cache.
Served(r) == r.pc = "done" /\ r.result \in {"ok", "hit"}

SameRequest(r, u) == CacheKey(r.ep, r.params) = CacheKey(u.ep, u.params)

\* C1: a call whose quota step is rejected, by the daily or by the
\* per-minute limiter, has added nothing to the consumed points of either
\* limiter.
C1_RejectedConsumesNothing ==
  \A t \in Threads :
     QuotaRejected(req[t]) => req[t].dCharged = 0 /\ req[t].mCharged = 0

\* C2: a call answered from the cache has consumed no daily and no
\* per-minute points and has sent no request.
C2_HitConsumesNothing ==
  \A t \in Threads :
     req[t].result = "hit" =>
        req[t].dCharged = 0 /\ req[t].mCharged = 0 /\ ~req[t].issued

\* C3: a call attempts the quota consumption at most twice and waits at most
\* once; the second attempt exists only after the one wait, which lasted
\* the fixed delay; and a call whose retry was rejected has failed after
\* exactly two attempts without sending a request.
C3_AtMostOneRetry ==
  \A t \in Threads :
     LET r == req[t] IN
     /\ r.tries <= 2
     /\ r.waits <= 1
     /\ r.tries = 2 => r.waits = 1
     /\ r.pc \in {"awaitDaily2", "awaitMinute2"} =>
           r.wakeAt >= RetryDelay /\ now >= r.wakeAt
     /\ r.pc = "done" /\ r.err = Err("Request error") =>
           r.tries = 2 /\ r.result = "err" /\ ~r.issued

\* A call has failed on its rejected retry.
C3_Witness ==
  \E t \in Threads :
     /\ req[t].pc = "done"
     /\ req[t].err = Err("Request error")
     /\ req[t].tries = 2
     /\ req[t].waits = 1

\* C4 as stated: of two served calls for the same request whose cache
\* lookups lie within the TTL of each other, exactly one sent a request.
C4_OneCallPerWindow ==
  \A t, u \in Threads :
     LET r == req[t]
         o == req[u]
     IN (/\ t # u
         /\ Served(r) /\ Served(o)
         /\ SameRequest(r, o)
         /\ r.checkAt - o.checkAt <= CacheTTL(r.ep)
         /\ o.checkAt - r.checkAt <= CacheTTL(r.ep))
        => (r.issued # o.issued)

\* C4, amended: when a call starts after a call for the same request has
\* returned a response, it sends no request if its cache lookup is no later
\* than the expiry of the entry the earlier call stored or read, and it
\* sends one if its lookup is later.
C4_OneCallAfterReturn ==
  \A t, u \in Threads :
     LET r == req[t]
         o == req[u]
     IN (/\ u \in r.after
         /\ Served(o)
         /\ SameRequest(r, o)
         /\ Checked(r))
        => (r.issued <=> r.checkAt > o.entryT)

\* A call that started after a served call for the same request was answered
\* from the cache.
C4_Witness ==
  \E t, u \in Threads :
     /\ u \in req[t].after
     /\ req[u].pc = "done" /\ req[u].result = "ok"
     /\ SameRequest(req[t], req[u])
     /\ req[t].pc = "done" /\ req[t].result = "hit"
     /\ ~req[t].issued

----------------------------------------------------------------------------
(* The job queue, under SpecJobs and SpecVideoJobs *)

\* The rows of job_queue that the enqueue of job id of queue q inserted
\* before the processor took the job.
OwnRows(q, id) ==
  {i \in DOMAIN jobRows : jobRows[i].by = <<q, id>> /\ ~jobRows[i].late}

\* Bull will not run the job again.
Over(j) == j.state \in {"completed", "failed"}

\* The videos fetchChannelVideosPaginated(ch, maxPages) returns when every
\* call succeeds: the listed videos with a detail record, of the pages fetched.
WalkVideos(ch, maxPages) ==
  LET pages == PagesOf(ch)
      n == IF maxPages < Len(pages) THEN maxPages ELSE Len(pages)
  IN {v \in UNION {{pages[i][k] : k \in 1..Len(pages[i])} : i \in 1..n} :
        Kind(v) = "youtube#video" /\ v \in KnownDetails}

\* statsQuery of calculateAndStoreChannelAnalytics: the counts over the
\* channel's rows of videos.
VideoStats(ch) ==
  LET rows == {v \in videos : v.channel_id = ch}
  IN [total_videos |-> Cardinality(rows),
      total_shorts |-> Cardinality({v \in rows : v.is_short})]

\* parseFloat(((total_shorts / total_videos) * 100).toFixed(2)), counted in
\* hundredths of a percent.
ShortsPercentage(stats) ==
  IF stats.total_videos > 0
  THEN ((stats.total_shorts * 100000) \div stats.total_videos + 5) \div 10
  ELSE 0

\* C5: a job that failed with a non-transient error (Channel not found, an
\* upstream 4xx other than 403) has run exactly once and is failed.
C5_NonTransientRunsOnce ==
  \A q \in Queues, id \in 1..MaxJobs :
     jobs[q][id].ntFailed =>
        jobs[q][id].state = "failed" /\ jobs[q][id].runs = 1

\* C6: a job runs at most three times, and once three attempts have failed
\* with a transient error and the job is failed, the record its enqueue
\* inserted (before the job first ran) has status failed and an error
\* message.
C6_ThreeTransientFailures ==
  \A q \in Queues, id \in 1..MaxJobs :
     /\ jobs[q][id].runs <= MaxAttempts
     /\ jobs[q][id].state = "failed" /\ jobs[q][id].trFailed = MaxAttempts =>
           \A i \in OwnRows(q, id) :
              jobRows[i].status = "failed" /\ jobRows[i].error_message # NoErr

\* C7: in every step, the status of the record of a channel_fetch job that
\* the job's own updates reach (its serial id is the job's Bull id, and it
\* was inserted before the job first ran) stays as it is or moves from
\* pending to started or from started to completed or failed; a completed
\* or failed record keeps its status.
C7_StatusForward ==
  [][\A i \in DOMAIN jobRows :
       i \in OwnRows("channel", i) =>
          \/ jobRows'[i].status = jobRows[i].status
          \/ <<jobRows[i].status, jobRows'[i].status>> \in
                {<<"pending", "started">>, <<"started", "completed">>,
                 <<"started", "failed">>}]_vars

\* C8: a completed record (inserted before its job first ran) has progress
\* 100, and the record of a job that Bull has completed is completed with
\* progress 100.
C8_CompletedIsFull ==
  /\ \A i \in DOMAIN jobRows :
        jobRows[i].status = "completed" /\ ~jobRows[i].late =>
           jobRows[i].progress = 100
  /\ \A q \in Queues, id \in 1..MaxJobs :
        jobs[q][id].state = "completed" =>
           \A i \in OwnRows(q, id) :
              jobRows[i].status = "completed" /\ jobRows[i].progress = 100

\* C9: a video_fetch job fails only if a call to the upstream service or to
\* storage failed, and when it is completed every video of the pagination
\* walk of its channel is stored.
C9_VideoFetchSucceeds ==
  \A id \in 1..MaxJobs :
     LET j == jobs["video"][id] IN
     /\ j.state = "failed" => j.extFailed
     /\ j.state = "completed" =>
           \A v \in WalkVideos(j.ch, DefaultMaxPages) :
              \E row \in videos : row.video_id = v

\* C10: once a video_fetch job is over without a failed call to the
\* upstream service or to storage, channel_analytics holds a row for its
\* channel that equals the aggregate of the channel's rows of videos.
C10_AnalyticsRecomputed ==
  \A id \in 1..MaxJobs :
     LET j == jobs["video"][id]
         stats == VideoStats(j.ch)
     IN Over(j) /\ ~j.extFailed =>
          \E a \in analytics :
             /\ a.channel_id = j.ch
             /\ a.total_videos = stats.total_videos
             /\ a.total_shorts = stats.total_shorts
             /\ a.shorts_percentage = ShortsPercentage(stats)

----------------------------------------------------------------------------
(* The pagination walk, under SpecWalk *)

Min(a, b) == IF a < b THEN a ELSE b

\* The videos getChannelVideos returns for page i of a channel: the listed
\* videos that have a detail record, in listing order.
PageVideosOf(ch, i) ==
  SelectSeq(PagesOf(ch)[i],
            LAMBDA v : Kind(v) = "youtube#video" /\ v \in KnownDetails)

\* The videos of the first n pages of a channel, in page order.
RECURSIVE FirstPages(_, _)
FirstPages(ch, n) ==
  IF n = 0 THEN <<>> ELSE FirstPages(ch, n - 1) \o PageVideosOf(ch, n)

\* C11: for maxPages >= 1 and a channel with P >= 1 pages, the walk never
\* issues more than min(maxPages, P) listing calls, the first call carries no
\* token and each later call carries the token the upstream service returned
\* to the call before it, and when the walk has returned it has issued
\* exactly min(maxPages, P) listing calls and returns the videos of those
\* pages in page order.
C11_WalkFetchesMinPages ==
  LET w == worker["channel"]
      P == Len(PagesOf(w.ch))
      n == Min(w.maxPages, P)
  IN (w.maxPages >= 1 /\ P >= 1) =>
       /\ Len(w.calls) <= n
       /\ w.calls # <<>> => w.calls[1] = 0
       /\ \A i \in 2..Len(w.calls) :
             /\ w.calls[i] # 0
             /\ w.calls[i] =
                  UpstreamData(EpSearch, ParamsOf(w.ch, w.calls[i - 1], <<>>),
                               0).next
       /\ w.pc = "p100" =>
             /\ Len(w.calls) = n
             /\ w.pagesFetched = n
             /\ w.allVideos = FirstPages(w.ch, n)

\* The walk with maxPages = 2 over the channel with 5 pages has returned.
C11_Witness ==
  /\ worker["channel"].pc = "p100"
  /\ worker["channel"].ch = "UC5"
  /\ worker["channel"].maxPages = 2
  /\ Len(worker["channel"].calls) = 2

----------------------------------------------------------------------------
(* Job records, under SpecJobs *)

\* The handler of job id of queue q has got past its first
\* updateJobStatus(job.id, 'started').
HasStarted(q, id) ==
  \/ jobs[q][id].attemptsMade > 0
  \/ jobs[q][id].state = "completed"
  \/ worker[q].id = id /\ worker[q].pc \notin {"idle", "start"}

\* C12: the record of an enqueued channel_fetch job whose serial id is the
\* job's Bull id (the record the handler's updates reach) shows pending
\* exactly as long as the handler has not made the job started.
C12_PendingUntilStarted ==
  \A i \in DOMAIN jobRows :
     jobRows[i].by = <<"channel", i>> =>
        (jobRows[i].status = "pending" <=> ~HasStarted("channel", i))

C14_RecordReachesTerminal ==
  \A q \in Queues, id \in 1..MaxJobs :
     Over(jobs[q][id]) =>
        \A i \in OwnRows(q, id) :
           jobRows[i].status \in {"completed", "failed"}

----------------------------------------------------------------------------
(* The errors of makeRequest, under Spec *)

\* The call has failed.
Failed(r) == r.pc = "done" /\ r.result = "err"

\* The kind the error taxonomy gives the failure of a call, by its cause.
TaxonomyKind(r) ==
  IF r.err.kind = "Request error" THEN "RateLimited"
  ELSE IF r.err.kind = "Network error" THEN "NetworkError"
  ELSE IF r.err.status = 403
  THEN (IF r.reason = "keyInvalid" THEN "InvalidKey" ELSE "RateLimited")
  ELSE IF r.err.status = 404 THEN "NotFound"
  ELSE IF r.err.status >= 500 THEN "Upstream5xx"
  ELSE "Upstream4xx"

\* C15: what two failed calls throw (the head of the message and the
\* status in it) is the same exactly if the taxonomy gives their causes the
\* same kind.
C15_ErrorsFollowTaxonomy ==
  \A t, u \in Threads :
     Failed(req[t]) /\ Failed(req[u]) =>
        (req[t].err = req[u].err <=>
           TaxonomyKind(req[t]) = TaxonomyKind(req[u]))

----------------------------------------------------------------------------
(* The shared quota, under Spec *)

\* The cost of the network call a caller's makeRequest has issued.
IssuedCost(t) == IF req[t].issued THEN req[t].cost ELSE 0

\* The network calls the callers have issued, and their total cost.
IssuedCalls == Cardinality({t \in Threads : req[t].issued})
IssuedTotal ==
  IssuedCost("c1") + IssuedCost("c2") + IssuedCost(WorkerThread)

\* The window earlier traffic left is still the limiter's window.
PriorDaily == \E c \in Costs : daily[c].value >= DailyPoints - Headroom
PriorMinute ==
  minute.value >= MinutePoints - Headroom /\ minute.expiresAt = MinuteDuration

\* C16: all callers draw on one quota: in a daily window that earlier
\* traffic left with Headroom units to spare, the network calls issued have
\* a total cost of at most Headroom, and in a per-minute window left with
\* Headroom calls to spare at most Headroom network calls are issued.
C16_SharedQuotaBounds ==
  /\ PriorDaily => IssuedTotal <= Headroom
  /\ PriorMinute => IssuedCalls <= Headroom

----------------------------------------------------------------------------
(* The video resources of the upstream service, and the client's mapping   *)
(* of them: SpecDetails                                                     *)

\* The decimal digits of a number.
RECURSIVE Digits(_)
Digits(n) ==
  IF n < 10 THEN <<DigitChars[n + 1]>>
  ELSE Digits(n \div 10) \o <<DigitChars[(n % 10) + 1]>>

\* The values of the components of a duration; None is a missing
\* component.
None == -1
Hours == {None, 1}
Minutes == {None, 1, 2}
Seconds == {None, 0, 1, 10, 45}

Part(n, unit) == IF n = None THEN <<>> ELSE Digits(n) \o <<unit>>

\* The ISO 8601 token PT#H#M#S of the components.
Token(h, m, s) == <<"P", "T">> \o Part(h, "H") \o Part(m, "M") \o Part(s, "S")

\* Strings that are no such token.
Malformed ==
  { <<"g", "a", "r", "b", "a", "g", "e">>,
    <<>>,
    <<"P">>,
    <<"p", "t", "5", "s">>,
    <<"P", "T", "5", "S", "x">>,
    <<"x", "P", "T", "5", "S">>,
    <<"P", "T", "1", "0", "S", "2", "M">>,
    <<"P", "T", "5">> }

\* contentDetails.duration of a resource: a string, or absent.
Durations ==
  {[present |-> TRUE, text |-> Token(h, m, s)] :
     h \in Hours, m \in Minutes, s \in Seconds}
  \cup {[present |-> TRUE, text |-> str] : str \in Malformed}
  \cup {[present |-> FALSE, text |-> <<>>]}

Categories == {"10", "23"}

\* snippet.tags of a resource: a list of strings, or absent.
TagLists ==
  { [present |-> FALSE, list |-> <<>>],
    [present |-> TRUE, list |-> <<>>],
    [present |-> TRUE, list |-> << <<"m", "u", "s", "i", "c">> >>],
    [present |-> TRUE, list |-> << <<"m", "u", "s", "i", "c">>,
                                   <<"#", "S", "h", "o", "r", "t", "s">> >>],
    [present |-> TRUE, list |-> << <<"S", "H", "O", "R", "T">> >>],
    [present |-> TRUE, list |-> << <<"s", "h", "o", "t">> >>] }

Resources ==
  {[id |-> "v1", ch |-> "UC1", duration |-> d, categoryId |-> c, tags |-> t] :
     d \in Durations, c \in Categories, t \in TagLists}

InitDetails ==
  /\ InitCommon
  /\ daily = [c \in Costs |-> NoWindow]
  /\ minute = NoWindow

NextDetails == \E res \in Resources : GetVideoDetails(res)

SpecDetails == InitDetails /\ [][NextDetails]_vars

\* getVideoDetails has mapped a resource.
Mapped == last.op = "getVideoDetails" /\ last.threw = ""

\* C17: a mapped video is a Short exactly if its duration is at most 60
\* seconds, or a tag contains "short" in any case, or its category is "23".
C17_ShortIffAnyRule ==
  Mapped =>
    (last.video.isShort <=>
       \/ last.video.durationSeconds <= 60
       \/ SomeTagShort(last.res.tags)
       \/ last.res.categoryId = "23")

\* The seconds of a duration string: those of its components when the
\* string is a PT#H#M#S token, 0 otherwise.
Secs(n) == IF n = None THEN 0 ELSE n
TokenSeconds(str) ==
  IF \E h \in Hours, m \in Minutes, s \in Seconds : str = Token(h, m, s)
  THEN LET c == CHOOSE c \in Hours \X Minutes \X Seconds :
                   str = Token(c[1], c[2], c[3])
       IN Secs(c[1]) * 3600 + Secs(c[2]) * 60 + Secs(c[3])
  ELSE 0

\* C18: mapping a resource never throws, whatever its duration is, and the
\* duration in seconds is that of the token, or 0 for a string that is no
\* token.
C18_DurationDecoded ==
  last.op = "getVideoDetails" =>
     /\ last.threw = ""
     /\ last.video.durationSeconds = TokenSeconds(last.res.duration.text)

----------------------------------------------------------------------------
(* Storage: storeChannel, storeVideo (services), and                       *)
(* calculateAndStoreChannelAnalytics (storage.js) over the schema of       *)
(* database/connection.js                                                  *)

\* The columns of a table that carry a UNIQUE constraint.
UniqueColumns(table) ==
  IF table = "channels" THEN {"channel_id"}
  ELSE IF table = "videos" THEN {"video_id"}
  ELSE {}

\* INSERT ... ON CONFLICT (column): PostgreSQL rejects the statement unless
\* a unique constraint matches the conflict target.
ConflictTargetOk(table, column) == column \in UniqueColumns(table)

\* A row of videos made by the INSERT.
InsertedVideo(v) ==
  [video_id |-> v.videoId, channel_id |-> v.channelId,
   duration_seconds |-> v.durationSeconds, is_short |-> v.isShort,
   category_id |-> v.categoryId, tags |-> v.tags.list,
   created_at |-> now, updated_at |-> now]

\* A storeVideo that inserts without a conflict clause.
UpsertVideo_InsertOnly(tbl, v) == tbl \cup {InsertedVideo(v)}

\* INSERT INTO videos ... ON CONFLICT (video_id) DO UPDATE SET ...: the row
\* of the video_id takes the payload's columns but keeps its channel_id
\* and created_at; without such a row one is inserted.
UpsertVideo(tbl, v) ==
  IF \E r \in tbl : r.video_id = v.videoId
  THEN {IF r.video_id = v.videoId
        THEN [r EXCEPT !.duration_seconds = v.durationSeconds,
                       !.is_short = v.isShort,
                       !.category_id = v.categoryId,
                       !.tags = v.tags.list,
                       !.updated_at = now]
        ELSE r : r \in tbl}
  ELSE tbl \cup {InsertedVideo(v)}

\* The INSERT of a new row violates the foreign key of videos.channel_id
\* when channels has no row of the channel.
ForeignKeyViolated(v) ==
  /\ ~\E r \in videos : r.video_id = v.videoId
  /\ ~channels[v.channelId].present

\* YouTubeVideoService.storeVideo(videoData), called from outside the job
\* queue: the query runs, or its error is logged and rethrown.
StoreVideo(v) ==
  /\ IF ForeignKeyViolated(v)
     THEN /\ videos' = videos
          /\ last' = [NoOutcome EXCEPT
                        !.op = "storeVideo", !.video = v,
                        !.threw = "DatabaseError",
                        !.again = (last.op = "storeVideo" /\ last.video = v)]
     ELSE /\ videos' = UpsertVideo(videos, v)
          /\ last' = [NoOutcome EXCEPT
                        !.op = "storeVideo", !.video = v,
                        !.again = (last.op = "storeVideo" /\ last.video = v)]
  /\ UNCHANGED <<channels, analytics>>
  /\ UNCHANGED clientVars
  /\ UNCHANGED jobVars

\* YouTubeChannelService.storeChannel(channelData), called from outside the
\* job queue.
StoreChannel(ch, stat) ==
  /\ channels' = UpsertChannel(channels, ch, stat)
  /\ last' = [NoOutcome EXCEPT
                !.op = "storeChannel", !.ch = ch, !.stat = stat,
                !.again = (last.op = "storeChannel" /\ last.ch = ch
                           /\ last.stat = stat)]
  /\ UNCHANGED <<videos, analytics>>
  /\ UNCHANGED clientVars
  /\ UNCHANGED jobVars

\* parseInt of a NULL aggregate.
NaN == -1

\* analyticsData of calculateAndStoreChannelAnalytics: COUNT(*) is "0" and
\* the SUM is NULL over no rows, so totalShorts is NaN for a channel
\* without videos.
AnalyticsData(ch) ==
  LET stats == VideoStats(ch) IN
  [totalVideos |-> stats.total_videos,
   totalShorts |-> IF stats.total_videos = 0 THEN NaN ELSE stats.total_shorts,
   shortsPercentage |-> ShortsPercentage(stats)]

\* A row of channel_analytics.
AnalyticsRow(ch, data) ==
  [channel_id |-> ch, total_videos |-> data.totalVideos,
   total_shorts |-> data.totalShorts,
   shorts_percentage |-> data.shortsPercentage, calculated_at |-> now]

\* storage.calculateAndStoreChannelAnalytics(channelId): the aggregate is
\* computed and updateChannelAnalytics runs INSERT INTO channel_analytics
\* ... ON CONFLICT (channel_id), whose error is logged and rethrown.
CalculateAndStoreChannelAnalytics(ch) ==
  LET data == AnalyticsData(ch) IN
  /\ IF ~ConflictTargetOk("channel_analytics", "channel_id")
        \/ data.totalShorts = NaN
        \/ ~channels[ch].present
     THEN /\ analytics' = analytics
          /\ last' = [NoOutcome EXCEPT
                        !.op = "calculateAndStoreChannelAnalytics",
                        !.ch = ch, !.data = data, !.threw = "DatabaseError"]
     ELSE /\ analytics' =
               {a \in analytics : a.channel_id # ch}
               \cup {AnalyticsRow(ch, data)}
          /\ last' = [NoOutcome EXCEPT
                        !.op = "calculateAndStoreChannelAnalytics",
                        !.ch = ch, !.data = data]
  /\ UNCHANGED <<channels, videos>>
  /\ UNCHANGED clientVars
  /\ UNCHANGED jobVars

\* The resources whose videos are stored: two versions of v1, v2 under a
\* stored and under an unknown channel, and v3.
PT45S == [present |-> TRUE, text |-> Token(None, None, 45)]
PT2M == [present |-> TRUE, text |-> Token(None, 2, None)]
NoTags == [present |-> TRUE, list |-> <<>>]
StoredResources ==
  { [id |-> "v1", ch |-> "UC1", duration |-> PT45S, categoryId |-> "10",
     tags |-> NoTags],
    [id |-> "v1", ch |-> "UC1", duration |-> PT2M, categoryId |-> "10",
     tags |-> NoTags],
    [id |-> "v2", ch |-> "UC1", duration |-> PT2M, categoryId |-> "10",
     tags |-> NoTags],
    [id |-> "v2", ch |-> "UCx", duration |-> PT2M, categoryId |-> "10",
     tags |-> NoTags],
    [id |-> "v3", ch |-> "UC1", duration |-> PT45S, categoryId |-> "10",
     tags |-> NoTags] }

\* The storage functions called from outside the job queue, on empty
\* tables.
InitStore ==
  /\ InitCommon
  /\ daily = [c \in Costs |-> NoWindow]
  /\ minute = NoWindow

NextStore ==
  \/ \E ch \in Existing, stat \in Stats : StoreChannel(ch, stat)
  \/ \E res \in StoredResources : StoreVideo(VideoOf(res))
  \/ \E ch \in ChannelIds : CalculateAndStoreChannelAnalytics(ch)
  \/ Tick(RetryDelay)

SpecStore == InitStore /\ [][NextStore]_vars

\* round(totalShorts / totalVideos * 100, 2), in hundredths of a percent.
RoundedPercentage(shorts, total) ==
  (2 * shorts * 10000 + total) \div (2 * total)

\* C19: once calculateAndStoreChannelAnalytics(channelId) has ended, it has
\* not thrown, and channel_analytics holds a row of the channel with the
\* counts of the channel's videos and with shorts_percentage =
\* round(totalShorts / totalVideos * 100, 2), or 0 for a channel without
\* videos.
C19_AnalyticsRowStored ==
  last.op = "calculateAndStoreChannelAnalytics" =>
     LET stats == VideoStats(last.ch) IN
     /\ last.threw = ""
     /\ \E a \in analytics :
           /\ a.channel_id = last.ch
           /\ a.total_videos = stats.total_videos
           /\ a.total_shorts = stats.total_shorts
           /\ a.shorts_percentage =
                 IF stats.total_videos > 0
                 THEN RoundedPercentage(stats.total_shorts, stats.total_videos)
                 ELSE 0

\* The rows of a video id.
RowsOf(tbl, videoId) == {r \in tbl : r.video_id = videoId}

\* A call of a storage function ends in this step.
CallEnds == <<last, channels, videos>>' # <<last, channels, videos>>

\* C20 as stated: after storeVideo has been applied twice with the same
\* payload, videos holds exactly one row of the video id.
C20_TwiceLeavesOneRow ==
  last.op = "storeVideo" /\ last.again =>
     Cardinality(RowsOf(videos, last.video.videoId)) = 1

\* C20: a storeVideo (storeChannel) that succeeds right after a call with
\* the same payload leaves exactly one row of the video id (channel id),
\* the row of before with only updated_at set anew.
C20_SecondWriteBumpsOnly ==
  [][ /\ (CallEnds /\ last'.op = "storeVideo" /\ last'.again
            /\ last'.threw = "") =>
         /\ Cardinality(RowsOf(videos', last'.video.videoId)) = 1
         /\ \E r \in videos :
               /\ r.video_id = last'.video.videoId
               /\ videos' = (videos \ {r})
                               \cup {[r EXCEPT !.updated_at = now]}
      /\ (CallEnds /\ last'.op = "storeChannel" /\ last'.again) =>
         /\ channels[last'.ch].present
         /\ channels' = [channels EXCEPT ![last'.ch].updated_at = now]
    ]_vars

\* A payload has been stored a second time, later than the first time.
C20_Witness ==
  /\ last.op = "storeVideo" /\ last.again /\ last.threw = ""
  /\ \E r \in videos :
        r.video_id = last.video.videoId /\ r.updated_at > r.created_at

----------------------------------------------------------------------------
(* The pages of getChannelVideos, under SpecWalk *)

\* getChannelVideos returns a page in this step.
PageReturns ==
  /\ worker["channel"].pc \in {"search", "details"}
  /\ worker["channel"]'.pc \in {"search", "p100"}
  /\ worker["channel"]'.pagesFetched = worker["channel"].pagesFetched + 1

\* C21: the page getChannelVideos returns holds exactly the listed videos
\* that have a detail record, in listing order, and the token it returns is
\* the token of the listing: the walk goes on with it, or ends when there
\* is none or maxPages is reached.
C21_UnmatchedDropped ==
  [][ PageReturns =>
        LET w == worker["channel"]
            i == w.pagesFetched + 1
            token == UpstreamData(EpSearch,
                                  ParamsOf(w.ch, w.calls[Len(w.calls)], <<>>),
                                  0).next
        IN /\ worker["channel"]'.allVideos =
                 w.allVideos \o PageVideosOf(w.ch, i)
           /\ IF token # 0 /\ i < w.maxPages
              THEN /\ worker["channel"]'.pc = "search"
                   /\ req'[WorkerThread].params.tok = token
              ELSE worker["channel"]'.pc = "p100"
    ]_vars

\* The walk has returned a page on which v4 was listed without a detail
\* record and v3 with one.
C21_Witness ==
  /\ worker["channel"].ch = "UC5"
  /\ worker["channel"].pagesFetched = 4
  /\ \E k \in 1..Len(worker["channel"].allVideos) :
        worker["channel"].allVideos[k] = "v3"
  /\ ~\E k \in 1..Len(worker["channel"].allVideos) :
        worker["channel"].allVideos[k] = "v4"

----------------------------------------------------------------------------
(* The cache of makeRequest by endpoint: SpecCache *)

AllEndpoints == {EpSearch, EpVideos, EpChannels, EpOther}

\* The steps of the clock around the three TTLs.
CacheTicks == {1, ListTTL, DefaultTTL, ChannelTTL}

\* The parameters a caller sends to an endpoint.
ParamsFor(ep) ==
  IF ep = EpVideos THEN ParamsOf("", 0, <<"v1">>) ELSE ParamsOf("UC1", 0, <<>>)

\* Two callers outside the job queue request any of the endpoints, c1
\* first, from fresh limiter windows, while the clock advances.
InitCache ==
  /\ InitCommon
  /\ daily = [c \in Costs |-> NoWindow]
  /\ minute = NoWindow

NextCache ==
  \/ \E t \in DirectThreads, ep \in AllEndpoints :
        /\ t = "c2" => req["c1"].pc = "done"
        /\ Call(t, ep, ParamsFor(ep), 1)
  \/ \E t \in DirectThreads : AfterDaily(t, TRUE)
  \/ \E t \in DirectThreads : AfterMinute(t, TRUE)
  \/ \E t \in DirectThreads, stat \in Stats : ResponseOk(t, stat)
  \/ \E d \in CacheTicks : Tick(d)

SpecCache == InitCache /\ [][NextCache]_vars

\* The TTL of an endpoint by its class: 5 minutes for the list and search
\* endpoints, 30 minutes for the channel lookup, 10 minutes for the rest.
ClassTTL(endpoint) ==
  IF endpoint \in {EpSearch, EpVideos} THEN 5 * 60
  ELSE IF endpoint = EpChannels THEN 30 * 60
  ELSE 10 * 60

\* C22: a response is cached under the TTL of its endpoint's class, and a
\* call is answered from the cache only with an entry of its key whose TTL
\* has not run out.
C22_TTLByEndpointClass ==
  [][ /\ \A e \in cache' \ cache : e.t = now + ClassTTL(e.key[1])
      /\ \A t \in Threads :
            (req'[t].result = "hit" /\ req[t].result # "hit") =>
               \E e \in cache :
                  /\ e.key = CacheKey(req'[t].ep, req'[t].params)
                  /\ e.value = req'[t].value
                  /\ now <= e.t
    ]_vars

\* A channel lookup is answered from the cache after the default TTL has
\* run out.
C22_Witness ==
  /\ req["c2"].result = "hit"
  /\ req["c2"].ep = EpChannels
  /\ req["c2"].checkAt > DefaultTTL

----------------------------------------------------------------------------
(* Writes of several callers to one row, under SpecStore.  Each upsert is  *)
(* one statement, so concurrent writers are serialised by the database in  *)
(* some order: every order of the calls is a behaviour of SpecStore.       *)

\* The row has the columns of the video other than channel_id.
SameButChannel(r, v) ==
  /\ r.video_id = v.videoId
  /\ r.duration_seconds = v.durationSeconds
  /\ r.is_short = v.isShort
  /\ r.category_id = v.categoryId
  /\ r.tags = v.tags.list

\* C23 as stated: after a write, the table holds exactly one row of the
\* channel id or video id, and all its attributes are those of the payload
\* written last.
C23_LastWriteInFull ==
  /\ (last.op = "storeVideo" /\ last.threw = "") =>
        \E r \in videos :
           /\ RowsOf(videos, last.video.videoId) = {r}
           /\ SameButChannel(r, last.video)
           /\ r.channel_id = last.video.channelId
  /\ last.op = "storeChannel" =>
        /\ channels[last.ch].present
        /\ channels[last.ch].stat = last.stat

\* C23: after a write, the table holds exactly one row of the channel id
\* or video id, and its attributes, the channel_id of a video apart, are
\* those of the payload written last.
C23_LastWriteWins ==
  /\ (last.op = "storeVideo" /\ last.threw = "") =>
        \E r \in videos :
           /\ RowsOf(videos, last.video.videoId) = {r}
           /\ SameButChannel(r, last.video)
  /\ last.op = "storeChannel" =>
        /\ channels[last.ch].present
        /\ channels[last.ch].stat = last.stat

\* A video has been written over the row that a write with another
\* duration made earlier.
C23_Witness ==
  /\ last.op = "storeVideo" /\ last.threw = "" /\ ~last.again
  /\ last.video.durationSeconds = 120
  /\ \E r \in videos :
        /\ r.video_id = last.video.videoId
        /\ r.video_id = "v1"
        /\ r.updated_at > r.created_at
        /\ channels["UC1"].updated_at < r.created_at

----------------------------------------------------------------------------
(* The record a job's updates reach, under SpecJobs *)

\* C24: an update of the channel-fetch handler changes no record but the
\* one made by the enqueue of its job, and the 'started' update leaves that
\* record, once it is stored, started.
C24_UpdatesReachOwnRecord ==
  [][ LET w == worker["channel"] IN
      /\ \A i \in DOMAIN jobRows :
            jobRows'[i] # jobRows[i] => jobRows[i].by = <<"channel", w.id>>
      /\ (w.pc = "start" /\ worker'["channel"].pc = "import") =>
            \A i \in DOMAIN jobRows :
               jobRows[i].by = <<"channel", w.id>> =>
                  jobRows'[i].status = "started"
    ]_vars

----------------------------------------------------------------------------
(* getJobStatus: SpecStatus *)

\* queue.getJob(jobId): the job of that id in the queue, or null.
GetJob(q, jobId) ==
  IF jobId \in 1..MaxJobs /\ jobs[q][jobId].state # "none"
  THEN [found |-> TRUE, q |-> q, id |-> jobId, ch |-> jobs[q][jobId].ch,
        state |-> jobs[q][jobId].state]
  ELSE NoOutcome.job

\* getJobById: the channel-fetch queue is asked first, then the
\* video-fetch queue.
GetJobById(jobId) ==
  LET channelJob == GetJob("channel", jobId) IN
  IF channelJob.found THEN channelJob ELSE GetJob("video", jobId)

\* getJobStatus(jobId), called by the holder of a handle whose id is jobId;
\* the queue of the handle is not passed.
GetJobStatus(q, jobId) ==
  /\ last' = [NoOutcome EXCEPT !.op = "getJobStatus",
                               !.handle = [q |-> q, id |-> jobId],
                               !.job = GetJobById(jobId)]
  /\ UNCHANGED clientVars
  /\ UNCHANGED jobVars
  /\ UNCHANGED tableVars

\* Jobs are added to both queues, the channel-fetch processor takes its
\* jobs, and the status of a job is asked for by id, also by ids that no
\* enqueue has returned.
NextStatus ==
  \/ \E q \in Queues, ch \in ChannelIds : Add(q, ch)
  \/ \E q \in Queues : StoreJobInDatabase(q)
  \/ \E id \in 1..MaxJobs : Take("channel", id)
  \/ \E q \in Queues, id \in 1..(MaxJobs + 1) : GetJobStatus(q, id)

SpecStatus == InitJobs /\ [][NextStatus]_vars

\* C25: getJobStatus called with the id of a handle that an enqueue on a
\* queue returned reports the job of that queue and id, with its channel
\* and state; called with an id that no enqueue returned, it reports none.
C25_StatusOfThatJob ==
  [][ (last' # last /\ last'.op = "getJobStatus") =>
        LET h == last'.handle IN
        IF GetJob(h.q, h.id).found
        THEN last'.job = GetJob(h.q, h.id)
        ELSE (\A q \in Queues : ~GetJob(q, h.id).found) => ~last'.job.found
    ]_vars

----------------------------------------------------------------------------
(* What an issued call has been charged, under Spec *)

\* C26: a call that has issued its network call has taken exactly its cost
\* from the daily budget and exactly one point from the per-minute budget,
\* also when it passed the quota step on the retry.
C26_ChargedOnce ==
  \A t \in Threads :
     req[t].issued => req[t].dCharged = req[t].cost /\ req[t].mCharged = 1

----------------------------------------------------------------------------
(* What a write to an existing row leaves alone, under SpecStore *)

\* C28: a storeVideo that writes to an existing video_id leaves the
\* channel_id and created_at of that row, every other row of videos and
\* every row of channels as they were, whatever channel the payload names;
\* a storeChannel that writes to an existing channel_id leaves the
\* created_at of that row and every other row as they were.
C28_ExistingRowFrame ==
  [][ /\ (/\ CallEnds /\ last'.op = "storeVideo" /\ last'.threw = ""
          /\ RowsOf(videos, last'.video.videoId) # {}) =>
         /\ \E r \in videos, s \in videos' :
               /\ r.video_id = last'.video.videoId
               /\ s.video_id = r.video_id
               /\ s.channel_id = r.channel_id
               /\ s.created_at = r.created_at
               /\ videos' \ {s} = videos \ {r}
         /\ channels' = channels
         /\ analytics' = analytics
      /\ (/\ CallEnds /\ last'.op = "storeChannel"
          /\ channels[last'.ch].present) =>
         /\ channels'[last'.ch].created_at = channels[last'.ch].created_at
         /\ \A c \in ChannelIds \ {last'.ch} : channels'[c] = channels[c]
         /\ videos' = videos
         /\ analytics' = analytics
    ]_vars

\* A payload that names another channel has been written over the row of
\* a video stored earlier, and the row is still of the first channel.
C28_Witness ==
  /\ last.op = "storeVideo" /\ last.threw = ""
  /\ last.video.videoId = "v2" /\ last.video.channelId = "UCx"
  /\ \E r \in videos :
        /\ r.video_id = "v2" /\ r.channel_id = "UC1"
        /\ r.updated_at > r.created_at
  /\ channels["UC1"].updated_at > channels["UC1"].created_at

----------------------------------------------------------------------------
(* The two Shorts classifiers: SpecClassify *)

\* isShort(video) of utils/analytics: a video that carries is_short is
\* what it carries; otherwise the duration rule asks for a truthy
\* duration_seconds, so 0 does not pass it, then the tags and the category
\* are looked at, and any other video is not a Short.
IsShortVideo(video) ==
  IF video.is_short.present THEN video.is_short.value
  ELSE IF video.duration_seconds # 0 /\ video.duration_seconds <= 60 THEN TRUE
  ELSE IF SomeTagShort(video.tags) THEN TRUE
  ELSE IF video.category_id = "23" THEN TRUE
  ELSE FALSE

\* The durations, in seconds, of the videos classified.
ClassifiedSeconds == {0, 1, 59, 60, 61, 62, 120}

\* is_short of a video: absent, or a boolean.
Flags ==
  {[present |-> FALSE, value |-> FALSE]}
  \cup {[present |-> TRUE, value |-> b] : b \in BOOLEAN}

\* Both classifiers are called for one video: YouTubeAPIClient.isShort with
\* its category, duration and tags, and isShort of utils/analytics with the
\* video.
Classify(flag, duration, categoryId, tags) ==
  /\ last' = [NoOutcome EXCEPT
                !.op = "isShort",
                !.flag = flag,
                !.video = [NoVideo EXCEPT
                             !.durationSeconds = duration,
                             !.categoryId = categoryId,
                             !.tags = tags,
                             !.isShort = IsShort(categoryId, duration, tags)],
                !.short = IsShortVideo([is_short |-> flag,
                                        duration_seconds |-> duration,
                                        category_id |-> categoryId,
                                        tags |-> tags])]
  /\ UNCHANGED clientVars
  /\ UNCHANGED jobVars
  /\ UNCHANGED tableVars

NextClassify ==
  \E flag \in Flags, duration \in ClassifiedSeconds, categoryId \in Categories,
     tags \in TagLists : Classify(flag, duration, categoryId, tags)

SpecClassify == InitDetails /\ [][NextClassify]_vars

\* C29: for a video that carries no is_short, isShort of utils/analytics
\* and YouTubeAPIClient.isShort return the same for the same duration,
\* tags and category.
C29_ClassifiersAgree ==
  (last.op = "isShort" /\ ~last.flag.present) =>
     last.short = last.video.isShort

----------------------------------------------------------------------------
(* The length of the pagination walk, under SpecWalkFair *)

Max(a, b) == IF a > b THEN a ELSE b

\* C30: a walk that has been called has issued at least one listing call
\* and never more than max(1, min(maxPages, P)) for a channel with P
\* pages, also for maxPages < 1; when it has returned it has issued
\* exactly that many; and every walk ends, by returning or by throwing.
C30_WalkLength ==
  /\ [](LET w == worker["channel"]
            n == Max(1, Min(w.maxPages, Len(PagesOf(w.ch))))
        IN w.pc # "walk" =>
             /\ Len(w.calls) >= 1
             /\ Len(w.calls) <= n
             /\ w.pc = "p100" =>
                   /\ Len(w.calls) = n
                   /\ w.pagesFetched = n)
  /\ <>(worker["channel"].pc \in {"p100", "catch"})

\* The walk with a maxPages below 1 has returned after its one listing
\* call, whose page carried a continuation token.
C30_Witness ==
  /\ worker["channel"].pc = "p100"
  /\ worker["channel"].ch = "UC5"
  /\ worker["channel"].maxPages < 1
  /\ worker["channel"].calls = <<0>>
  /\ worker["channel"].pagesFetched = 1

====
